---- MODULE Spec2Model ----
(***************************************************************************)
(* A model of saross/map-reader-llm.                                       *)
(*                                                                         *)
(*   - the resumable batch runner, src/src/2_detect_mounds.py              *)
(*     (detect_mounds): resume-load of all_detections.geojson, gathering   *)
(*     and filtering of tiles, the per-tile loop with its three exception  *)
(*     handlers, the periodic save and the final save;                     *)
(*   - the tiler, src/scripts/preprocess_tiling.py (tile_raster);          *)
(*   - the lower-left/resolution mapper of                                 *)
(*     src/src/3_georeference_and_visualize.py (process_results) and       *)
(*     src/scripts/convert_to_geojson.py (convert_to_geojson), and the     *)
(*     affine mapper of detect_mounds on the tiles tile_raster writes;     *)
(*   - deduplicate_detections of 3_georeference_and_visualize.py;          *)
(*   - main of preprocess_tiling.py, the loop over the rasters of a batch. *)
(*                                                                         *)
(* Tiles are numbered 1..n in the order sorted(all_tiles) puts them in,     *)
(* which is the order of their paths (tile_path); their filenames are      *)
(* distinct, as tile_raster names them after the map.                      *)
(* TEST_LIMIT is imported by 2_detect_mounds.py (line 16) and set nowhere  *)
(* in config.py: it is an input of the model, 0 standing for "no cap".     *)
(* GOOGLE_API_KEY is taken to be set (lines 20-22 return otherwise).       *)
(* The output file is written by open(output_file, "w") followed by        *)
(* geojson.dump: open truncates the file, so a process killed between the  *)
(* two leaves a file that is no JSON document ("torn").                    *)
(***************************************************************************)
EXTENDS Integers, Sequences, FiniteSets, TLC

------------------------------------------------------------------------------
(* Bounds of the model *)

\* Tiles on disk in the resumable scenarios (specification Spec).
NTiles == 5

\* Tiles on disk in the single long invocation (specification SpecLongRun).
LongTiles == 7

\* Invocations of detect_mounds in one behaviour.
MaxRuns == 2

\* Largest processing cap tried (0 is "no cap").
MaxLimit == 1

\* Tiles that meet an error (transport, parse, other) in one behaviour.
MaxFaults == 1

\* Kills of the process in one behaviour.
MaxCrashes == 1

\* Largest raster width and height, in pixels, given to the tiler.
MaxRaster == 7

\* Largest TILE_SIZE given to the tiler.
MaxTile == 4

\* Most points given to deduplicate_detections.
MaxPoints == 3

\* Most rasters in one tiling batch.
MaxBatch == 3

------------------------------------------------------------------------------
(* Program constants *)

\* 2_detect_mounds.py:107
save_frequency == 5

\* config.py:18
TILE_SIZE == 512

\* config.py:19
OVERLAP == 64

\* 3_georeference_and_visualize.py:112: the scale of normalized coordinates.
\* Geo coordinates and pixel coordinates of the mappers are kept as integers
\* in units of 1/Scale, which holds every product n / 1000 * TILE_SIZE * res
\* of integer n and res exactly.
Scale == 1000

------------------------------------------------------------------------------
(* State of detect_mounds *)

VARIABLES
    all_tiles,          \* the tiles found under TILES_DIR (a set of 1..n)
    tile_path,          \* the path of each tile: its directory and filename
    test_limit,         \* TEST_LIMIT, the processing cap of the configuration
    oracle,             \* the oracle: "free", or a stub "hit" / "empty"
    file,               \* all_detections.geojson: [state, features]
    pc,                 \* "idle", "loop", "ckpt", "final", "done", "crashed"
    features,           \* the in-memory feature list
    processed_tiles,    \* the in-memory ledger
    tiles_to_process,   \* the list the loop enumerates
    i,                  \* iterations of the loop completed in this run
    run,                \* number of the current invocation
    outcome,            \* history: what happened to each tile in this run
    prevTransport,      \* history: tiles that met a transport error in the
                        \* previous run, when that run ran to its end
    everCalled,         \* history: tiles sent to the oracle by earlier runs
    crashes,            \* history: how many runs were killed
    faults,             \* history: how many tiles met an error
    mixed,              \* history: tiles whose features in some list come
                        \* from two oracle calls
    committed           \* history: the features of the last completed write

cfgVars == <<all_tiles, tile_path, test_limit, oracle>>

memVars == <<features, processed_tiles, tiles_to_process, i>>

histVars == <<outcome, prevTransport, everCalled, crashes, faults, mixed,
              committed>>

runnerVars == <<cfgVars, file, pc, memVars, run, histVars>>

(* State of tile_raster *)

VARIABLES
    width,              \* src.width
    height,             \* src.height
    tile_size,          \* TILE_SIZE of the configuration the tiler runs under
    overlap,            \* OVERLAP of that configuration
    tx,                 \* x of the inner loop
    ty,                 \* y of the outer loop
    windows,            \* the list of (x, y, window)
    tpc,                \* "off", "windows", "done", "written"
    src_transform,      \* src.transform, the affine transform of the raster
    sidecars,           \* the world file (.pgw) written for each window
    metadata            \* metadata.json: the legacy entry of each window

tilerVars == <<width, height, tile_size, overlap, tx, ty, windows, tpc,
               src_transform, sidecars, metadata>>

(* State of process_results and convert_to_geojson *)

VARIABLES
    tile_meta,          \* [ll_x, ll_y, res_x, res_y] of the tile
    det,                \* box_2d of the detection: [ymin, xmin, ymax, xmax]
    geom_box,           \* the arguments of box(...) in process_results
    geom,               \* the arguments of box(...) in convert_to_geojson
    mpc,                \* "off", "ready", "mapped"
    transform,          \* src.transform of the tile, as detect_mounds reads it
    geom_affine         \* the arguments of box(...) in detect_mounds

mapperVars == <<tile_meta, det, geom_box, geom, mpc, transform, geom_affine>>

(* State of deduplicate_detections *)

VARIABLES
    gdf,                \* the geometries of the input frame, a list of points
    distance_threshold, \* the threshold, in metres
    deduplicated,       \* the rows of the frame returned
    dpc                 \* "off", "ready", "done"

dedupVars == <<gdf, distance_threshold, deduplicated, dpc>>

(* State of main of preprocess_tiling.py *)

VARIABLES
    tif_files,          \* the rasters of INPUTS_DIR, in the order of the loop
    bi,                 \* iterations of the loop completed
    called,             \* history: the rasters tile_raster was called on
    opened,             \* history: the rasters rasterio.open was called on
    tile_files,         \* the number of tiles written for each raster
    metadata_files,     \* the rasters whose metadata.json has been written
    logged,             \* the rasters whose error has been printed
    bpc                 \* "off", "main", "done"

batchVars == <<tif_files, bi, called, opened, tile_files, metadata_files,
               logged, bpc>>

vars == <<runnerVars, tilerVars, mapperVars, dedupVars, batchVars>>

\* What the actions of one component leave alone.
nonRunnerVars == <<tilerVars, mapperVars, dedupVars, batchVars>>

nonTilerVars == <<runnerVars, mapperVars, dedupVars, batchVars>>

nonMapperVars == <<runnerVars, tilerVars, dedupVars, batchVars>>

nonDedupVars == <<runnerVars, tilerVars, mapperVars, batchVars>>

nonBatchVars == <<runnerVars, tilerVars, mapperVars, dedupVars>>

------------------------------------------------------------------------------
(* Helpers *)

Min(a, b) == IF a <= b THEN a ELSE b

RECURSIVE SortedSeq(_)
\* Line 78: sorted(all_tiles)
SortedSeq(S) ==
    IF S = {} THEN <<>>
    ELSE LET m == CHOOSE x \in S : \A y \in S : x <= y
         IN  <<m>> \o SortedSeq(S \ {m})

\* The set of source_tile values of a feature list.
SourceTiles(fs) == {fs[k].source_tile : k \in 1..Len(fs)}

\* Lines 138-177: what one oracle response for tile t appends to the list.
\* The features of one response differ only in geometry, label and reasoning,
\* which the runner never reads back: they are kept as one element, and a
\* response without detections appends nothing.
NewFeatures(t, some) ==
    IF some THEN <<[source_tile |-> t]>> ELSE <<>>

AbsentFile == [state |-> "absent", features |-> <<>>]

\* open(output_file, "w") has truncated the file and geojson.dump is not over.
TornFile == [state |-> "torn", features |-> <<>>]

SavedFile(fs) == [state |-> "ok", features |-> fs]

\* A file that parses as JSON and whose features array holds fs followed by
\* an element that line 65 cannot index (null, a number, an object without
\* "properties").
UnreadableTailFile(fs) == [state |-> "tail", features |-> fs]

------------------------------------------------------------------------------
(* The tiles under TILES_DIR: one directory per map *)

\* Strings are sequences of character codes.
\* "K1" and "K10", the stems of two rasters of INPUTS_DIR.
MapK1 == <<75, 49>>

MapK10 == <<75, 49, 48>>

RECURSIVE LexLess(_, _)
\* a < b for Python strings (and, element by element, for tuples).
LexLess(a, b) ==
    IF Len(b) = 0 THEN FALSE
    ELSE IF Len(a) = 0 THEN TRUE
    ELSE IF Head(a) # Head(b) THEN Head(a) < Head(b)
    ELSE LexLess(Tail(a), Tail(b))

\* preprocess_tiling.py lines 23 and 78-79: the k-th tile of a map is
\* TILES_DIR / map_name / f"{map_name}_x{x}_y{y}.png". The offsets are kept
\* as one digit, which orders the tiles of one map as their names do.
TilePathOf(map_name, k) ==
    [dir |-> map_name, name |-> map_name \o <<95, 120, 48 + k>>]

\* Path.__lt__ compares the parts of two paths in turn: the directory, then
\* the filename.
PathLess(p, q) ==
    \/ LexLess(p.dir, q.dir)
    \/ p.dir = q.dir /\ LexLess(p.name, q.name)

\* The tiles of one map, and of two maps with the first n \div 2 tiles in
\* the first.
Layouts(n) ==
    {[t \in 1..n |-> TilePathOf(MapK1, t - 1)],
     [t \in 1..n |-> IF t <= n \div 2
                     THEN TilePathOf(MapK1, t - 1)
                     ELSE TilePathOf(MapK10, t - (n \div 2) - 1)]}

\* Line 78: all_tiles = sorted(all_tiles). Tile t is the t-th path of the
\* sorted list.
SortedByPath(paths) ==
    \A s, t \in DOMAIN paths : s < t => PathLess(paths[s], paths[t])

------------------------------------------------------------------------------
(* Resume-load, gather, filter, cap: lines 55-89 *)

\* features after lines 56-69: the file's features when it exists and parses,
\* [] when it is absent or geojson.load raises.
LoadFeatures(f) == IF f.state = "ok" THEN f.features ELSE <<>>

\* processed_tiles after lines 57-69: the loop of lines 64-66 adds the
\* source_tile of every feature it gets to; the handler of lines 67-69 resets
\* features and leaves processed_tiles as it is.
LoadProcessed(f) ==
    IF f.state \in {"ok", "tail"} THEN SourceTiles(f.features) ELSE {}

\* Line 82 without its condition: every tile is processed again.
FilterKeepsAll(sorted, processed) == sorted

\* Line 82: [t for t in all_tiles if t.name not in processed_tiles]
Filter(sorted, processed) ==
    SelectSeq(sorted, LAMBDA t : t \notin processed)

\* Lines 85-87: if TEST_LIMIT and TEST_LIMIT > 0: tiles_to_process[:TEST_LIMIT]
ApplyLimit(ts, limit) ==
    IF limit > 0 THEN SubSeq(ts, 1, Min(limit, Len(ts))) ELSE ts

NoOutcome == [t \in all_tiles |-> "none"]

\* The tiles a run has sent to the oracle.
Called(o) == {t \in DOMAIN o : o[t] # "none"}

\* One invocation starts: lines 55-89.
Start ==
    /\ pc \in {"idle", "done", "crashed"}
    /\ run < MaxRuns
    /\ run' = run + 1
    /\ features' = LoadFeatures(file)
    /\ processed_tiles' = LoadProcessed(file)
    /\ tiles_to_process' =
           ApplyLimit(Filter(SortedSeq(all_tiles), LoadProcessed(file)),
                      test_limit)
    /\ i' = 0
    /\ pc' = "loop"
    /\ prevTransport' = IF pc = "done"
                        THEN {t \in all_tiles : outcome[t] = "transport"}
                        ELSE {}
    /\ everCalled' = everCalled \cup Called(outcome)
    /\ outcome' = NoOutcome
    /\ UNCHANGED nonRunnerVars
    /\ UNCHANGED <<cfgVars, file, crashes, faults, mixed, committed>>

------------------------------------------------------------------------------
(* The loop body: lines 109-197 *)

\* Line 183: if (i + 1) % save_frequency == 0, with idx the index of the tile.
SaveDue(idx) == (idx + 1) % save_frequency = 0

\* Line 109: the tile of this iteration.
CurrentTile == tiles_to_process[i + 1]

\* History: tile t gets features from this call; when the list already holds
\* features of t, they are of an earlier call.
Mixed(m, fs, t, some) ==
    IF some /\ t \in SourceTiles(fs) THEN m \cup {t} ELSE m

\* What the oracle may do with a tile: a stub answers every tile alike.
Responses ==
    CASE oracle = "hit"   -> {"hit"}
      [] oracle = "empty" -> {"empty"}
      [] OTHER            -> {"hit", "empty", "transport", "parse", "exc"}

\* Lines 116-121 as they would be if the handler recorded the tile as done:
\* the failed tile gets an entry in the feature list.
TransportErrorLedgers ==
    /\ pc = "loop" /\ i < Len(tiles_to_process)
    /\ "transport" \in Responses /\ faults < MaxFaults
    /\ faults' = faults + 1
    /\ outcome' = [outcome EXCEPT ![CurrentTile] = "transport"]
    /\ features' = features \o NewFeatures(CurrentTile, TRUE)
    /\ i' = i + 1
    /\ UNCHANGED nonRunnerVars
    /\ UNCHANGED <<cfgVars, file, pc, processed_tiles, tiles_to_process, run,
                   prevTransport, everCalled, crashes, mixed, committed>>

\* Lines 116-121: generate_content raises; print, sleep(20), continue.
TransportError ==
    /\ pc = "loop" /\ i < Len(tiles_to_process)
    /\ "transport" \in Responses /\ faults < MaxFaults
    /\ faults' = faults + 1
    /\ outcome' = [outcome EXCEPT ![CurrentTile] = "transport"]
    /\ i' = i + 1
    /\ UNCHANGED nonRunnerVars
    /\ UNCHANGED <<cfgVars, file, pc, features, processed_tiles,
                   tiles_to_process, run, prevTransport, everCalled, crashes,
                   mixed, committed>>

\* Lines 125-130: json.loads raises; print, continue.
ParseError ==
    /\ pc = "loop" /\ i < Len(tiles_to_process)
    /\ "parse" \in Responses /\ faults < MaxFaults
    /\ faults' = faults + 1
    /\ outcome' = [outcome EXCEPT ![CurrentTile] = "parse"]
    /\ i' = i + 1
    /\ UNCHANGED nonRunnerVars
    /\ UNCHANGED <<cfgVars, file, pc, features, processed_tiles,
                   tiles_to_process, run, prevTransport, everCalled, crashes,
                   mixed, committed>>

\* Lines 112-197 when some other statement of the body raises (Image.open,
\* rasterio.open, det["box_2d"] of a later detection): the features built so
\* far, if any, stay in the list, the outer handler prints and sleeps, and
\* the periodic save of this iteration is not reached.
OtherError ==
    /\ pc = "loop" /\ i < Len(tiles_to_process)
    /\ "exc" \in Responses /\ faults < MaxFaults
    /\ faults' = faults + 1
    /\ \E some \in BOOLEAN :
        /\ features' = features \o NewFeatures(CurrentTile, some)
        /\ mixed' = Mixed(mixed, features, CurrentTile, some)
    /\ outcome' = [outcome EXCEPT ![CurrentTile] = "exc"]
    /\ i' = i + 1
    /\ UNCHANGED nonRunnerVars
    /\ UNCHANGED <<cfgVars, file, pc, processed_tiles, tiles_to_process, run,
                   prevTransport, everCalled, crashes, committed>>

\* Lines 112-193 when nothing raises: the detections become features; when
\* the save is due, open(output_file, "w") truncates the file.
Detect ==
    /\ pc = "loop" /\ i < Len(tiles_to_process)
    /\ \E some \in BOOLEAN :
        /\ (IF some THEN "hit" ELSE "empty") \in Responses
        /\ features' = features \o NewFeatures(CurrentTile, some)
        /\ mixed' = Mixed(mixed, features, CurrentTile, some)
        /\ outcome' = [outcome EXCEPT
                          ![CurrentTile] = IF some THEN "hit" ELSE "empty"]
    /\ i' = i + 1
    /\ IF SaveDue(i)
       THEN pc' = "ckpt" /\ file' = TornFile
       ELSE pc' = pc /\ file' = file
    /\ UNCHANGED nonRunnerVars
    /\ UNCHANGED <<cfgVars, processed_tiles, tiles_to_process, run,
                   prevTransport, everCalled, crashes, faults, committed>>

\* Line 193: geojson.dump of the periodic save completes.
PeriodicSaveDone ==
    /\ pc = "ckpt"
    /\ file' = SavedFile(features)
    /\ committed' = features
    /\ pc' = "loop"
    /\ UNCHANGED nonRunnerVars
    /\ UNCHANGED <<cfgVars, memVars, run, outcome, prevTransport, everCalled,
                   crashes, faults, mixed>>

\* Line 208: the loop is over; open(output_file, "w") truncates the file.
FinalSaveOpen ==
    /\ pc = "loop" /\ i = Len(tiles_to_process)
    /\ file' = TornFile
    /\ pc' = "final"
    /\ UNCHANGED nonRunnerVars
    /\ UNCHANGED <<cfgVars, memVars, run, histVars>>

\* Line 209: geojson.dump of the final save completes; the run is over.
FinalSaveDone ==
    /\ pc = "final"
    /\ file' = SavedFile(features)
    /\ committed' = features
    /\ pc' = "done"
    /\ UNCHANGED nonRunnerVars
    /\ UNCHANGED <<cfgVars, memVars, run, outcome, prevTransport, everCalled,
                   crashes, faults, mixed>>

\* The process is killed: memory is gone, the file stays as it is.
Crash ==
    /\ pc \in {"loop", "ckpt", "final"}
    /\ crashes < MaxCrashes
    /\ crashes' = crashes + 1
    /\ pc' = "crashed"
    /\ features' = <<>>
    /\ processed_tiles' = {}
    /\ tiles_to_process' = <<>>
    /\ i' = 0
    /\ everCalled' = everCalled \cup Called(outcome)
    /\ outcome' = NoOutcome
    /\ UNCHANGED nonRunnerVars
    /\ UNCHANGED <<cfgVars, file, run, prevTransport, faults, mixed,
                   committed>>

------------------------------------------------------------------------------
(* Claims about detect_mounds *)

\* The ledger the next invocation will rebuild from the output file.
Ledger == LoadProcessed(file)

\* A stub oracle, no cap, no kill: the setting of the resumability test.
StubRuns == oracle \in {"hit", "empty"} /\ test_limit = 0 /\ crashes = 0

\* No two elements of a feature list are of the same tile.
OneCallPerTile(fs) ==
    \A j, k \in 1..Len(fs) : fs[j].source_tile = fs[k].source_tile => j = k

\* C1: with a stub oracle that returns one fixed well-formed response, after
\* the first complete run every tile is in the ledger, exactly once; the
\* second run over the same tiles and the same file calls the oracle for no
\* tile and adds no entry.
C1_ResumeIdempotent ==
    StubRuns =>
        /\ (pc = "done" /\ run = 1) =>
               /\ all_tiles \subseteq Ledger
               /\ OneCallPerTile(file.features)
        /\ (run = 2 /\ pc \in {"loop", "final", "done"}) =>
               /\ Called(outcome) = {}
               /\ features = committed

\* C2: over any sequence of runs, killed runs and resumed runs included, no
\* feature list, persisted or in memory, holds features of one tile that come
\* from two oracle calls; a tile of the ledger is not sent to the oracle
\* again and gets no further features.
C2_IdempotentResume ==
    /\ mixed = {}
    /\ OneCallPerTile(file.features)
    /\ OneCallPerTile(features)
    /\ \A t \in processed_tiles : outcome[t] = "none"
    /\ \A k \in 1..Len(tiles_to_process) :
           tiles_to_process[k] \notin processed_tiles

\* A resumed run, after a kill, with a ledger read back from the file, has
\* sent a tile to the oracle, got features and saved them.
C2_Witness ==
    /\ pc = "done" /\ run = 2 /\ crashes = 1
    /\ processed_tiles # {}
    /\ \E t \in all_tiles : outcome[t] = "hit" /\ t \in Ledger

\* The tiles whose oracle results of this run are in no completed write.
Unsaved ==
    {t \in Called(outcome) :
        outcome[t] = "hit" /\ t \notin SourceTiles(committed)}

\* C3: at every point of a run, at most save_frequency tiles have results of
\* this run that are not yet in the output file, whatever successes and
\* failures came before.
C3_BoundedLoss == Cardinality(Unsaved) <= save_frequency

\* C4: whenever a run has loaded the output file, also after a kill in the
\* middle of a write, every feature of the last completed write is in its
\* feature list.
C4_CommittedSurvive ==
    pc \in {"loop", "ckpt", "final", "done"} =>
        \A k \in 1..Len(committed) :
            \E j \in 1..Len(features) : features[j] = committed[k]

\* C5: a tile whose response could not be parsed is in the ledger when the
\* run is over.
C5_ParseFailureLedgered ==
    pc = "done" =>
        \A t \in all_tiles : outcome[t] = "parse" => t \in Ledger

\* C6: a tile whose oracle call raised is not in the ledger, has no feature,
\* and is not in the ledger the run leaves behind; the next run, when the
\* two runs run to their end, sends it to the oracle again.
C6_TransportRetryable ==
    /\ \A t \in all_tiles :
           outcome[t] = "transport" =>
               /\ t \notin processed_tiles
               /\ t \notin SourceTiles(features)
               /\ pc = "done" => t \notin Ledger
    /\ pc = "done" => prevTransport \subseteq Called(outcome)

\* Under a cap, the second of two complete runs has sent again the tile whose
\* call raised in the first, and the run before it had gone on to other tiles.
C6_Witness ==
    /\ pc = "done" /\ run = 2 /\ test_limit = 1
    /\ prevTransport # {}
    /\ prevTransport \subseteq Called(outcome)

\* C7: under a cap and an oracle whose answers are all well-formed, an
\* invocation handles at most cap tiles, none of which an earlier invocation
\* handled.
C7_CapProgress ==
    (oracle \in {"hit", "empty"} /\ test_limit >= 1 /\ crashes = 0) =>
        /\ Cardinality(Called(outcome)) <= test_limit
        /\ Called(outcome) \cap everCalled = {}

\* C8: when a run is over, every tile that met an error in it (transport,
\* parse, or another exception) has an entry in the output file.
C8_ErroredIdentifiable ==
    pc = "done" =>
        \A t \in all_tiles :
            outcome[t] \in {"transport", "parse", "exc"} =>
                t \in SourceTiles(file.features)

\* The tiles this run has sent to the oracle, in the order of the calls.
CallSequence == SubSeq(tiles_to_process, 1, i)

\* C14: in every run the tiles sent to the oracle, gathered from all map
\* directories, come in strictly ascending order of their filenames.
C14_SortedByFilename ==
    \A j, k \in 1..Len(CallSequence) :
        j < k => LexLess(tile_path[CallSequence[j]].name,
                         tile_path[CallSequence[k]].name)

\* C17: after the resume-load, whether the file was absent, read in full, or
\* its reading failed partway, every tile of processed_tiles has its features
\* in the feature list; and no tile the run skipped is missing from the file
\* the run saves at its end.
C17_LedgerConsistent ==
    /\ pc \in {"loop", "ckpt", "final", "done"} =>
           processed_tiles \subseteq SourceTiles(features)
    /\ pc = "done" => processed_tiles \subseteq SourceTiles(file.features)

------------------------------------------------------------------------------
(* tile_raster: scripts/preprocess_tiling.py lines 28-55 *)

\* Line 33 with the overlap added to the stride instead of taken from it.
StepAddsOverlap(size, ovl) == size + ovl

\* Line 33: step = TILE_SIZE - OVERLAP
Step(size, ovl) == size - ovl

\* Line 47: Window(x, y, TILE_SIZE, TILE_SIZE)
Window(x, y, size) ==
    [col_off |-> x, row_off |-> y, width |-> size, height |-> size]

\* Lines 38-55: one pass of the inner loop body appends (x, y, window); x and y
\* advance as range(0, width, step) and range(0, height, step) do.
AppendWindow ==
    /\ tpc = "windows"
    /\ windows' = Append(windows, Window(tx, ty, tile_size))
    /\ LET step == Step(tile_size, overlap)
       IN  IF tx + step < width
           THEN /\ tx' = tx + step
                /\ ty' = ty
                /\ tpc' = tpc
           ELSE /\ tx' = 0
                /\ ty' = ty + step
                /\ tpc' = IF ty + step < height THEN "windows" ELSE "done"
    /\ UNCHANGED <<width, height, tile_size, overlap, src_transform, sidecars,
                   metadata>>
    /\ UNCHANGED nonTilerVars

------------------------------------------------------------------------------
(* Claims about tile_raster *)

\* The pixel columns and rows of a window.
Cols(w) == w.col_off .. (w.col_off + w.width - 1)

Rows(w) == w.row_off .. (w.row_off + w.height - 1)

\* b is the window after a along the x axis (the y axis).
NextAlongX(a, b) ==
    /\ a.row_off = b.row_off /\ a.col_off < b.col_off
    /\ \A k \in 1..Len(windows) :
           ~(/\ windows[k].row_off = a.row_off
             /\ a.col_off < windows[k].col_off
             /\ windows[k].col_off < b.col_off)

NextAlongY(a, b) ==
    /\ a.col_off = b.col_off /\ a.row_off < b.row_off
    /\ \A k \in 1..Len(windows) :
           ~(/\ windows[k].col_off = a.col_off
             /\ a.row_off < windows[k].row_off
             /\ windows[k].row_off < b.row_off)

\* C9: the windows of tile_raster have their origins at the multiples of
\* TILE_SIZE - OVERLAP below the width and below the height, are all
\* TILE_SIZE x TILE_SIZE, cover every pixel of the raster, and two consecutive
\* windows along an axis share exactly OVERLAP columns (rows).
C9_TilingCoverage ==
    tpc = "done" =>
        /\ \A k \in 1..Len(windows) :
               /\ windows[k].width = tile_size /\ windows[k].height = tile_size
               /\ windows[k].col_off < width /\ windows[k].row_off < height
               /\ windows[k].col_off % (tile_size - overlap) = 0
               /\ windows[k].row_off % (tile_size - overlap) = 0
        /\ \A px \in 0..(width - 1), py \in 0..(height - 1) :
               \E k \in 1..Len(windows) :
                   px \in Cols(windows[k]) /\ py \in Rows(windows[k])
        /\ \A j, k \in 1..Len(windows) :
               /\ NextAlongX(windows[j], windows[k]) =>
                      Cardinality(Cols(windows[j]) \cap Cols(windows[k])) = overlap
               /\ NextAlongY(windows[j], windows[k]) =>
                      Cardinality(Rows(windows[j]) \cap Rows(windows[k])) = overlap

\* A finished tiling with overlap, several windows along both axes, and a last
\* window that runs past the right and the bottom edge of the raster.
C9_Witness ==
    /\ tpc = "done" /\ overlap >= 1
    /\ \E j, k \in 1..Len(windows) : NextAlongX(windows[j], windows[k])
    /\ \E j, k \in 1..Len(windows) : NextAlongY(windows[j], windows[k])
    /\ \E k \in 1..Len(windows) :
           /\ windows[k].col_off + windows[k].width > width
           /\ windows[k].row_off + windows[k].height > height

------------------------------------------------------------------------------
(* The lower-left/resolution mappers *)

\* The normalized coordinates tried.
NormCoords == {0, 10, 500, 1000}

\* The tile metadata tried: [ll_x, ll_y, res_x, res_y].
TileMetas == {<<100, 200, 2, 2>>, <<0, 0, 1, 1>>, <<-50, 30, 3, 1>>}

\* 3_georeference_and_visualize.py lines 112-115: (n / 1000) * TILE_SIZE,
\* in units of 1/Scale pixel.
PixelCoord(n) == n * TILE_SIZE

\* Lines 106-125 without the vertical flip: geo y grows with the pixel row.
ProcessResultsBoxNoFlip(meta, box_2d) ==
    LET ll_x == meta[1]
        ll_y == meta[2]
        res_x == meta[3]
        res_y == meta[4]
        px_min_y == PixelCoord(box_2d[1])
        px_min_x == PixelCoord(box_2d[2])
        px_max_y == PixelCoord(box_2d[3])
        px_max_x == PixelCoord(box_2d[4])
        geo_min_x == ll_x * Scale + (px_min_x * res_x)
        geo_max_x == ll_x * Scale + (px_max_x * res_x)
        geo_min_y == ll_y * Scale + (px_min_y * res_y)
        geo_max_y == ll_y * Scale + (px_max_y * res_y)
    IN  <<geo_min_x, geo_min_y, geo_max_x, geo_max_y>>

\* 3_georeference_and_visualize.py lines 106-125: the arguments of
\* box(geo_min_x, geo_min_y, geo_max_x, geo_max_y), in units of 1/Scale.
ProcessResultsBox(meta, box_2d) ==
    LET ll_x == meta[1]
        ll_y == meta[2]
        res_x == meta[3]
        res_y == meta[4]
        px_min_y == PixelCoord(box_2d[1])
        px_min_x == PixelCoord(box_2d[2])
        px_max_y == PixelCoord(box_2d[3])
        px_max_x == PixelCoord(box_2d[4])
        geo_min_x == ll_x * Scale + (px_min_x * res_x)
        geo_max_x == ll_x * Scale + (px_max_x * res_x)
        geo_max_y == ll_y * Scale + ((TILE_SIZE * Scale - px_min_y) * res_y)
        geo_min_y == ll_y * Scale + ((TILE_SIZE * Scale - px_max_y) * res_y)
    IN  <<geo_min_x, geo_min_y, geo_max_x, geo_max_y>>

\* scripts/convert_to_geojson.py lines 65-99: the same computation.
ConvertBox(meta, box_2d) ==
    LET ll_x == meta[1]
        ll_y == meta[2]
        res_x == meta[3]
        res_y == meta[4]
        ymin_n == box_2d[1]
        xmin_n == box_2d[2]
        ymax_n == box_2d[3]
        xmax_n == box_2d[4]
        px_min_y == ymin_n * TILE_SIZE
        px_max_y == ymax_n * TILE_SIZE
        px_min_x == xmin_n * TILE_SIZE
        px_max_x == xmax_n * TILE_SIZE
        geo_min_x == ll_x * Scale + (px_min_x * res_x)
        geo_max_x == ll_x * Scale + (px_max_x * res_x)
        geo_max_y == ll_y * Scale + ((TILE_SIZE * Scale - px_min_y) * res_y)
        geo_min_y == ll_y * Scale + ((TILE_SIZE * Scale - px_max_y) * res_y)
    IN  <<geo_min_x, geo_min_y, geo_max_x, geo_max_y>>

\* One pass of "for det in detections" in either script.
MapDetection ==
    /\ mpc \in {"ready", "mapped"}
    /\ \E box_2d \in [1..4 -> NormCoords] :
        /\ det' = box_2d
        /\ geom_box' = ProcessResultsBox(tile_meta, box_2d)
        /\ geom' = ConvertBox(tile_meta, box_2d)
    /\ mpc' = "mapped"
    /\ UNCHANGED <<tile_meta, transform, geom_affine>>
    /\ UNCHANGED nonMapperVars

------------------------------------------------------------------------------
(* Claims about the lower-left/resolution mappers *)

\* The box of the claim's formula, in units of 1/Scale: llx + xmin*T/1000*rx,
\* lly + (T - ymax*T/1000)*ry, llx + xmax*T/1000*rx, lly + (T - ymin*T/1000)*ry.
ClaimedBox(llx, lly, rx, ry, ymin, xmin, ymax, xmax) ==
    <<llx * Scale + xmin * TILE_SIZE * rx,
      lly * Scale + (TILE_SIZE * Scale - ymax * TILE_SIZE) * ry,
      llx * Scale + xmax * TILE_SIZE * rx,
      lly * Scale + (TILE_SIZE * Scale - ymin * TILE_SIZE) * ry>>

\* C10: for a box with ymin <= ymax and xmin <= xmax both mappers build the
\* box of the claim's formula, with min <= max on both axes; on lower-left
\* (100, 200), resolution (2, 2), TILE_SIZE 512, the box [0, 0, 1000, 1000]
\* becomes [100, 200, 1124, 1224], and a box with ymin = 0, ymax = 10 has
\* maximum y 1224 and height 10.24.
C10_LegacyMapping ==
    (mpc = "mapped" /\ det[1] <= det[3] /\ det[2] <= det[4]) =>
        /\ geom_box = ClaimedBox(tile_meta[1], tile_meta[2], tile_meta[3],
                                 tile_meta[4], det[1], det[2], det[3], det[4])
        /\ geom = geom_box
        /\ geom_box[1] <= geom_box[3] /\ geom_box[2] <= geom_box[4]
        /\ (tile_meta = <<100, 200, 2, 2>> /\ det = <<0, 0, 1000, 1000>>) =>
               geom_box = <<100 * Scale, 200 * Scale, 1124 * Scale, 1224 * Scale>>
        /\ (tile_meta = <<100, 200, 2, 2>> /\ det[1] = 0 /\ det[3] = 10) =>
               /\ geom_box[4] = 1224 * Scale
               /\ geom_box[4] - geom_box[2] = 10240

\* The strip at the top of the tile of the second example has been mapped.
C10_Witness ==
    /\ mpc = "mapped" /\ tile_meta = <<100, 200, 2, 2>>
    /\ det = <<0, 0, 10, 1000>>
    /\ geom_box = <<100000, 1213760, 1124000, 1224000>>

------------------------------------------------------------------------------
(* The tiles on disk and the affine mapper of detect_mounds *)

\* The raster sizes tried under the configured TILE_SIZE and OVERLAP: one
\* window per axis, or three with the last one running past the edge.
RasterSizes == {400, 1000}

\* The north-up raster transforms tried (b = d = 0, a > 0, e < 0), with c and
\* f in geo units.
SrcTransforms ==
    {[a |-> 2, b |-> 0, c |-> 100, d |-> 0, e |-> -2, f |-> 1224],
     [a |-> 1, b |-> 0, c |-> 0, d |-> 0, e |-> -1, f |-> 0],
     [a |-> 3, b |-> 0, c |-> -50, d |-> 0, e |-> -1, f |-> 5000]}

\* affine: transform * (col, row)
AffineApply(t, col, row) ==
    <<t.a * col + t.b * row + t.c, t.d * col + t.e * row + t.f>>

\* preprocess_tiling.py line 85: rasterio.windows.transform(window, transform)
\* moves the origin of the transform to the window's upper-left corner.
WindowTransform(window, t) ==
    LET xy == AffineApply(t, window.col_off, window.row_off)
    IN  [t EXCEPT !.c = xy[1], !.f = xy[2]]

\* Lines 95-101: the world file holds the resolution and the centre of the
\* upper-left pixel (the centres in units of 1/Scale).
WorldFile(wt) ==
    [res_x |-> wt.a,
     res_y |-> wt.e,
     center_x |-> wt.c * Scale + (wt.a * Scale) \div 2,
     center_y |-> wt.f * Scale + (wt.e * Scale) \div 2]

\* Line 118: rasterio.windows.bounds(window, transform) = (w, s, e, n)
WindowBounds(window, t) ==
    LET lb == AffineApply(t, window.col_off, window.row_off + window.height)
        rt == AffineApply(t, window.col_off + window.width, window.row_off)
    IN  <<lb[1], lb[2], rt[1], rt[2]>>

\* Line 119: src.res of a transform with b = d = 0 is (a, -e).
Res(t) == <<t.a, -t.e>>

\* Line 119: metadata[tile_filename] = [w, s, src.res[0], src.res[1]]
LegacyMeta(window, t) ==
    LET wsen == WindowBounds(window, t)
    IN  <<wsen[1], wsen[2], Res(t)[1], Res(t)[2]>>

\* Lines 59-123: every window of the list gets its tile, its world file and
\* its legacy entry; metadata.json is written.
WriteTiles ==
    /\ tpc = "done"
    /\ sidecars' = [k \in 1..Len(windows) |->
                       WorldFile(WindowTransform(windows[k], src_transform))]
    /\ metadata' = [k \in 1..Len(windows) |->
                       LegacyMeta(windows[k], src_transform)]
    /\ tpc' = "written"
    /\ UNCHANGED <<width, height, tile_size, overlap, tx, ty, windows,
                   src_transform>>
    /\ UNCHANGED nonTilerVars

\* 2_detect_mounds.py lines 133-134: rasterio.open(tile_path).transform, read
\* from the tile's world file: the corner of the upper-left pixel, half a
\* pixel before its centre (c and f in units of 1/Scale).
ReadTransform(pgw) ==
    [a |-> pgw.res_x, b |-> 0,
     c |-> pgw.center_x - (pgw.res_x * Scale) \div 2,
     d |-> 0, e |-> pgw.res_y,
     f |-> pgw.center_y - (pgw.res_y * Scale) \div 2]

Max(a, b) == IF a >= b THEN a ELSE b

\* 2_detect_mounds.py lines 139-166: the arguments of
\* box(min_geo_x, min_geo_y, max_geo_x, max_geo_y), in units of 1/Scale.
DetectMoundsBox(tr, box_2d) ==
    LET ymin_n == box_2d[1]
        xmin_n == box_2d[2]
        ymax_n == box_2d[3]
        xmax_n == box_2d[4]
        px_min_x == xmin_n * TILE_SIZE
        px_max_x == xmax_n * TILE_SIZE
        px_min_y == ymin_n * TILE_SIZE
        px_max_y == ymax_n * TILE_SIZE
        geo_1 == AffineApply(tr, px_min_x, px_min_y)
        geo_2 == AffineApply(tr, px_max_x, px_max_y)
        min_geo_x == Min(geo_1[1], geo_2[1])
        max_geo_x == Max(geo_1[1], geo_2[1])
        min_geo_y == Min(geo_1[2], geo_2[2])
        max_geo_y == Max(geo_1[2], geo_2[2])
    IN  <<min_geo_x, min_geo_y, max_geo_x, max_geo_y>>

\* One detection of one tile, mapped by detect_mounds from the tile's own
\* transform and by process_results and convert_to_geojson from the tile's
\* entry of metadata.json.
MapTile ==
    /\ tpc = "written" /\ mpc = "off"
    /\ \E k \in DOMAIN metadata, box_2d \in [1..4 -> NormCoords] :
        /\ tile_meta' = metadata[k]
        /\ transform' = ReadTransform(sidecars[k])
        /\ det' = box_2d
        /\ geom_affine' = DetectMoundsBox(ReadTransform(sidecars[k]), box_2d)
        /\ geom_box' = ProcessResultsBox(metadata[k], box_2d)
        /\ geom' = ConvertBox(metadata[k], box_2d)
    /\ mpc' = "mapped"
    /\ UNCHANGED nonMapperVars

------------------------------------------------------------------------------
(* Claims about the two mapping conventions *)

\* C11: for every tile the tiler writes from a north-up raster, boundary
\* tiles included, and every normalized box, the box detect_mounds builds
\* from the tile's affine transform is the box process_results builds from
\* the tile's legacy entry.
C11_ConventionsAgree ==
    (tpc = "written" /\ mpc = "mapped") => geom_affine = geom_box

\* C12: for a detection with ymin > ymax or xmin > xmax, each of the three
\* mappers hands the geometry constructor min x <= max x and min y <= max y.
C12_BoxesNormalized ==
    (tpc = "written" /\ mpc = "mapped" /\ (det[1] > det[3] \/ det[2] > det[4]))
        => /\ geom_affine[1] <= geom_affine[3] /\ geom_affine[2] <= geom_affine[4]
           /\ geom_box[1] <= geom_box[3] /\ geom_box[2] <= geom_box[4]
           /\ geom[1] <= geom[3] /\ geom[2] <= geom[4]

------------------------------------------------------------------------------
(* deduplicate_detections: 3_georeference_and_visualize.py lines 13-58 *)

\* The points tried, in metres. No two of them are at a distance where the
\* polygon that buffer() builds and the disc it approximates differ on
\* whether two buffers overlap, for any threshold of Thresholds.
Points == {<<0, 0>>, <<5, 0>>, <<15, 0>>, <<30, 0>>, <<55, 0>>, <<0, 15>>}

\* The thresholds tried: the default of line 13 and a smaller one.
Thresholds == {12, 20}

\* Squared distance of two points.
Dist2(p, q) == (p[1] - q[1]) * (p[1] - q[1]) + (p[2] - q[2]) * (p[2] - q[2])

\* Line 32 with the threshold itself as the radius.
BufferWholeThreshold(p, d) == [center |-> p, radius |-> d]

\* Line 32: geometry.buffer(distance_threshold / 2)
Buffer(p, d) == [center |-> p, radius |-> d \div 2]

\* Two buffers share more than a boundary point.
Overlap(a, b) ==
    /\ a.radius > 0 /\ b.radius > 0
    /\ Dist2(a.center, b.center) < (a.radius + b.radius) * (a.radius + b.radius)

RECURSIVE UnaryUnion(_, _)
\* Line 33: unary_union merges buffers that overlap into one polygon, until
\* the parts left are disjoint. A part is kept as the set of the rows whose
\* buffers make it up.
UnaryUnion(buffered, parts) ==
    IF \E p, q \in parts :
           p # q /\ \E j \in p, k \in q : Overlap(buffered[j], buffered[k])
    THEN LET pq == CHOOSE pq \in parts \X parts :
                       /\ pq[1] # pq[2]
                       /\ \E j \in pq[1], k \in pq[2] :
                              Overlap(buffered[j], buffered[k])
         IN  UnaryUnion(buffered, (parts \ {pq[1], pq[2]}) \cup {pq[1] \cup pq[2]})
    ELSE parts

\* Lines 18-58. The result has one row per part of the union, its geometry
\* the centroid of the part; a row is kept as the part it is the centroid of.
DeduplicateDetections(g, d) ==
    IF Len(g) = 0
    THEN {}
    ELSE LET buffered == [k \in 1..Len(g) |-> Buffer(g[k], d)]
             nonempty == {k \in 1..Len(g) : buffered[k].radius > 0}
             merged == UnaryUnion(buffered, {{k} : k \in nonempty})
         IN  IF merged = {}
             THEN {}
             ELSE {[centroid_of |-> part] : part \in merged}

\* One call of deduplicate_detections.
Deduplicate ==
    /\ dpc = "ready"
    /\ deduplicated' = DeduplicateDetections(gdf, distance_threshold)
    /\ dpc' = "done"
    /\ UNCHANGED <<gdf, distance_threshold>>
    /\ UNCHANGED nonDedupVars

------------------------------------------------------------------------------
(* Claims about deduplicate_detections *)

\* Rows j and k are linked: their buffers of radius d/2 overlap, that is,
\* the points are less than d apart.
Linked(j, k) ==
    Dist2(gdf[j], gdf[k]) < distance_threshold * distance_threshold

RECURSIVE Group(_)
\* The rows that a chain of links joins to a row of S.
Group(S) ==
    LET T == S \cup {k \in 1..Len(gdf) : \E j \in S : Linked(j, k)}
    IN  IF T = S THEN S ELSE Group(T)

Groups == {Group({k}) : k \in 1..Len(gdf)}

\* C13: the result has exactly one point per group of rows joined by chains
\* of links; two points 5 m apart with d = 20 give one point, two points 50 m
\* apart give two, a chain of three with its ends 30 m apart gives one, and
\* an empty input gives an empty result.
C13_SingleLinkage ==
    dpc = "done" =>
        /\ {r.centroid_of : r \in deduplicated} = Groups
        /\ Cardinality(deduplicated) = Cardinality(Groups)
        /\ (distance_threshold = 20 /\ gdf = <<<<0, 0>>, <<5, 0>>>>) =>
               Cardinality(deduplicated) = 1
        /\ (distance_threshold = 20 /\ gdf = <<<<5, 0>>, <<55, 0>>>>) =>
               Cardinality(deduplicated) = 2
        /\ (distance_threshold = 20 /\ gdf = <<<<0, 0>>, <<15, 0>>, <<30, 0>>>>) =>
               Cardinality(deduplicated) = 1
        /\ gdf = <<>> => deduplicated = {}

\* A chain A near B near C whose ends are farther apart than the threshold
\* has been merged into one point.
C13_Witness ==
    /\ dpc = "done" /\ distance_threshold = 20
    /\ gdf = <<<<0, 0>>, <<15, 0>>, <<30, 0>>>>
    /\ ~Linked(1, 3)
    /\ deduplicated = {[centroid_of |-> {1, 2, 3}]}

------------------------------------------------------------------------------
(* main of preprocess_tiling.py: lines 127-140 (scripts/) and 103-116 (src/) *)

\* The rasters tried: one that tiles, one that rasterio.open rejects (line
\* 28), one whose first src.read raises (line 62).
Rasters ==
    {[kind |-> k, width |-> 3, height |-> h] :
        k \in {"good", "unreadable", "broken"}, h \in {1, 3}}

RECURSIVE Range(_, _, _)
\* list(range(start, stop, step)) for step # 0.
Range(start, stop, step) ==
    IF (step > 0 /\ start < stop) \/ (step < 0 /\ start > stop)
    THEN <<start>> \o Range(start + step, stop, step)
    ELSE <<>>

\* Lines 37-55: len(windows) for step # 0.
CountWindows(w, h, step) == Len(Range(0, h, step)) * Len(Range(0, w, step))

\* tile_raster raises on raster r: rasterio.open fails (line 28), range()
\* refuses a step of 0 (line 38), or src.read fails on the first window
\* (line 62).
Raises(r) ==
    \/ r.kind = "unreadable"
    \/ Step(tile_size, overlap) = 0
    \/ /\ r.kind = "broken"
       /\ CountWindows(r.width, r.height, Step(tile_size, overlap)) > 0

\* Lines 135-138: the next raster of the list; tile_raster is called on it.
NextRaster == tif_files[bi + 1]

\* Lines 139-140 as they would be if the handler gave up: the error is
\* printed and main returns.
TileRasterRaisesAborts ==
    /\ bpc = "main" /\ bi < Len(tif_files)
    /\ Raises(NextRaster)
    /\ called' = Append(called, bi + 1)
    /\ opened' = opened \cup {bi + 1}
    /\ logged' = Append(logged, bi + 1)
    /\ bi' = bi + 1
    /\ bpc' = "done"
    /\ UNCHANGED <<tif_files, tile_files, metadata_files>>
    /\ UNCHANGED nonBatchVars

\* Lines 135-140 when tile_raster raises: rasterio.open has been called on
\* the raster, nothing has been written, the error is printed and the loop
\* goes on.
TileRasterRaises ==
    /\ bpc = "main" /\ bi < Len(tif_files)
    /\ Raises(NextRaster)
    /\ called' = Append(called, bi + 1)
    /\ opened' = opened \cup {bi + 1}
    /\ logged' = Append(logged, bi + 1)
    /\ bi' = bi + 1
    /\ UNCHANGED <<tif_files, tile_files, metadata_files, bpc>>
    /\ UNCHANGED nonBatchVars

\* Lines 135-138 when tile_raster returns: one tile per window has been
\* written (lines 59-119), then metadata.json (lines 122-123).
TileRasterReturns ==
    /\ bpc = "main" /\ bi < Len(tif_files)
    /\ ~Raises(NextRaster)
    /\ called' = Append(called, bi + 1)
    /\ opened' = opened \cup {bi + 1}
    /\ tile_files' = [tile_files EXCEPT ![bi + 1] =
                         CountWindows(NextRaster.width, NextRaster.height,
                                      Step(tile_size, overlap))]
    /\ metadata_files' = metadata_files \cup {bi + 1}
    /\ bi' = bi + 1
    /\ UNCHANGED <<tif_files, logged, bpc>>
    /\ UNCHANGED nonBatchVars

\* Lines 131-133 and the end of the loop: main returns.
MainReturns ==
    /\ bpc = "main" /\ bi = Len(tif_files)
    /\ bpc' = "done"
    /\ UNCHANGED <<tif_files, bi, called, opened, tile_files, metadata_files,
                   logged>>
    /\ UNCHANGED nonBatchVars

------------------------------------------------------------------------------
(* Claims about the tiling batch *)

\* C15: main calls tile_raster for every raster of the batch, in turn,
\* whichever of them raise; every raise is caught and logged.
C15_FailureIsolated ==
    /\ called = [k \in 1..bi |-> k]
    /\ bpc = "done" => bi = Len(tif_files)
    /\ \A k \in 1..Len(logged) : logged[k] \in 1..bi
    /\ bpc = "done" =>
           \A k \in 1..Len(tif_files) :
               (k \notin metadata_files) <=> (\E j \in 1..Len(logged) : logged[j] = k)

\* Under a valid configuration, tile_raster raised on a raster, the error
\* was logged, and a later raster of the batch has been tiled.
C15_Witness ==
    /\ bpc = "done" /\ overlap >= 0 /\ overlap < tile_size
    /\ \E j, k \in 1..Len(tif_files) :
           /\ j < k
           /\ \E l \in 1..Len(logged) : logged[l] = j
           /\ k \in metadata_files /\ tile_files[k] > 0

\* The configuration does not satisfy 0 <= OVERLAP < TILE_SIZE.
InvalidSizing == ~(0 <= overlap /\ overlap < tile_size)

\* C16: under an invalid configuration no raster is opened for tiling and no
\* tile and no metadata file is written.
C16_InvalidSizingFatal ==
    (bpc \in {"main", "done"} /\ InvalidSizing) =>
        /\ opened = {}
        /\ \A k \in 1..Len(tif_files) : tile_files[k] = 0
        /\ metadata_files = {}

------------------------------------------------------------------------------
(* Specifications *)

\* n tiles on disk, no output file yet, r invocations already spent.
InitRunner(n, r) ==
    /\ all_tiles = 1..n
    /\ tile_path \in {paths \in Layouts(n) : SortedByPath(paths)}
    /\ test_limit \in 0..MaxLimit
    /\ oracle \in {"free", "hit", "empty"}
    /\ file = AbsentFile
    /\ pc = "idle"
    /\ features = <<>>
    /\ processed_tiles = {}
    /\ tiles_to_process = <<>>
    /\ i = 0
    /\ run = r
    /\ outcome = [t \in 1..n |-> "none"]
    /\ prevTransport = {}
    /\ everCalled = {}
    /\ crashes = 0
    /\ faults = 0
    /\ mixed = {}
    /\ committed = <<>>

\* detect_mounds is not running.
RunnerOff ==
    /\ all_tiles = {}
    /\ tile_path = <<>>
    /\ test_limit = 0
    /\ oracle = "free"
    /\ file = AbsentFile
    /\ pc = "off"
    /\ features = <<>>
    /\ processed_tiles = {}
    /\ tiles_to_process = <<>>
    /\ i = 0
    /\ run = 0
    /\ outcome = <<>>
    /\ prevTransport = {}
    /\ everCalled = {}
    /\ crashes = 0
    /\ faults = 0
    /\ mixed = {}
    /\ committed = <<>>

\* tile_raster is not running.
TilerOff ==
    /\ width = 0 /\ height = 0 /\ tile_size = 0 /\ overlap = 0
    /\ tx = 0 /\ ty = 0 /\ windows = <<>> /\ tpc = "off"
    /\ src_transform = <<>> /\ sidecars = <<>> /\ metadata = <<>>

\* No detection is being mapped.
MapperOff ==
    /\ tile_meta = <<>> /\ det = <<>> /\ geom_box = <<>> /\ geom = <<>>
    /\ mpc = "off"
    /\ transform = <<>> /\ geom_affine = <<>>

\* deduplicate_detections is not running.
DedupOff ==
    /\ gdf = <<>> /\ distance_threshold = 0 /\ deduplicated = {}
    /\ dpc = "off"

\* main of preprocess_tiling.py is not running.
BatchOff ==
    /\ tif_files = <<>> /\ bi = 0 /\ called = <<>> /\ opened = {}
    /\ tile_files = <<>> /\ metadata_files = {} /\ logged = <<>>
    /\ bpc = "off"

Next ==
    \/ Start
    \/ TransportError
    \/ ParseError
    \/ OtherError
    \/ Detect
    \/ PeriodicSaveDone
    \/ FinalSaveOpen
    \/ FinalSaveDone
    \/ Crash

Init ==
    InitRunner(NTiles, 0) /\ TilerOff /\ MapperOff /\ DedupOff /\ BatchOff

\* detect_mounds, run again and again over the tiles on disk.
Spec == Init /\ [][Next]_vars

\* One invocation over a tile set longer than the save interval.
InitLongRun ==
    /\ InitRunner(LongTiles, MaxRuns - 1)
    /\ TilerOff /\ MapperOff /\ DedupOff /\ BatchOff

SpecLongRun == InitLongRun /\ [][Next]_vars

\* tile_raster on a raster of any size under any valid configuration
\* (0 <= OVERLAP < TILE_SIZE).
InitTiler ==
    /\ width \in 1..MaxRaster
    /\ height \in 1..MaxRaster
    /\ tile_size \in 1..MaxTile
    /\ overlap \in 0..(tile_size - 1)
    /\ tx = 0 /\ ty = 0 /\ windows = <<>> /\ tpc = "windows"
    /\ src_transform = <<>> /\ sidecars = <<>> /\ metadata = <<>>
    /\ RunnerOff /\ MapperOff /\ DedupOff /\ BatchOff

SpecTiler == InitTiler /\ [][AppendWindow]_vars

\* The mappers on a tile's metadata and any box_2d over NormCoords.
InitMapper ==
    /\ tile_meta \in TileMetas
    /\ det = <<>> /\ geom_box = <<>> /\ geom = <<>> /\ mpc = "ready"
    /\ transform = <<>> /\ geom_affine = <<>>
    /\ RunnerOff /\ TilerOff /\ DedupOff /\ BatchOff

SpecMapper == InitMapper /\ [][MapDetection]_vars

\* tile_raster under the configured TILE_SIZE and OVERLAP on a north-up
\* raster, then the mappers on its tiles.
InitConventions ==
    /\ width \in RasterSizes
    /\ height \in RasterSizes
    /\ tile_size = TILE_SIZE
    /\ overlap = OVERLAP
    /\ tx = 0 /\ ty = 0 /\ windows = <<>> /\ tpc = "windows"
    /\ src_transform \in SrcTransforms
    /\ sidecars = <<>> /\ metadata = <<>>
    /\ RunnerOff /\ MapperOff /\ DedupOff /\ BatchOff

NextConventions ==
    \/ AppendWindow
    \/ WriteTiles
    \/ MapTile

SpecConventions == InitConventions /\ [][NextConventions]_vars

\* deduplicate_detections on any list of up to MaxPoints points.
InitDedup ==
    /\ gdf \in UNION {[1..n -> Points] : n \in 0..MaxPoints}
    /\ distance_threshold \in Thresholds
    /\ deduplicated = {}
    /\ dpc = "ready"
    /\ RunnerOff /\ TilerOff /\ MapperOff /\ BatchOff

SpecDedup == InitDedup /\ [][Deduplicate]_vars

\* main on a batch of up to MaxBatch rasters, under any TILE_SIZE and any
\* OVERLAP from -1 to TILE_SIZE + 1.
InitBatch ==
    /\ tif_files \in UNION {[1..n -> Rasters] : n \in 0..MaxBatch}
    /\ bi = 0
    /\ called = <<>>
    /\ opened = {}
    /\ tile_files = [k \in 1..Len(tif_files) |-> 0]
    /\ metadata_files = {}
    /\ logged = <<>>
    /\ bpc = "main"
    /\ width = 0 /\ height = 0
    /\ tile_size \in 1..MaxTile
    /\ overlap \in (-1)..(tile_size + 1)
    /\ tx = 0 /\ ty = 0 /\ windows = <<>> /\ tpc = "off"
    /\ src_transform = <<>> /\ sidecars = <<>> /\ metadata = <<>>
    /\ RunnerOff /\ MapperOff /\ DedupOff

NextBatch ==
    \/ TileRasterRaises
    \/ TileRasterReturns
    \/ MainReturns

SpecBatch == InitBatch /\ [][NextBatch]_vars

\* The features of the first k tiles, as an earlier run saved them.
SavedFeatures(k) == [t \in 1..k |-> [source_tile |-> t]]

\* The output files an invocation may find: none, one an earlier run wrote,
\* or one whose features array goes on with an element that is no feature.
OutputFiles(n) ==
    {AbsentFile}
        \cup {SavedFile(SavedFeatures(k)) : k \in 0..n}
        \cup {UnreadableTailFile(SavedFeatures(k)) : k \in 0..n}

\* One invocation of detect_mounds over n tiles and any output file.
InitResume ==
    /\ all_tiles = 1..NTiles
    /\ tile_path \in {paths \in Layouts(NTiles) : SortedByPath(paths)}
    /\ test_limit \in 0..MaxLimit
    /\ oracle \in {"free", "hit", "empty"}
    /\ file \in OutputFiles(NTiles)
    /\ pc = "idle"
    /\ features = <<>>
    /\ processed_tiles = {}
    /\ tiles_to_process = <<>>
    /\ i = 0
    /\ run = MaxRuns - 1
    /\ outcome = [t \in 1..NTiles |-> "none"]
    /\ prevTransport = {}
    /\ everCalled = {}
    /\ crashes = 0
    /\ faults = 0
    /\ mixed = {}
    /\ committed = file.features
    /\ TilerOff /\ MapperOff /\ DedupOff /\ BatchOff

SpecResume == InitResume /\ [][Next]_vars

====
